---------------------------- MODULE Spec2Model ----------------------------
(***************************************************************************)
(* Model of typebeat-generator's two Python programs.                      *)
(*                                                                         *)
(*  analyze_audio.py : one process run of the tempo/key analysis script.   *)
(*    Every statement of the try block is one step; a step either binds    *)
(*    its name in the module namespace or raises, and a raise jumps to the *)
(*    except clause.  Values that come from librosa (the decoded signal,   *)
(*    the tempo, the chromagram) are inputs chosen from bounded sets.      *)
(*    Tempo is held in half-BPM units so that rounding is computed, and a  *)
(*    str is a sequence of one-character strings so that concatenation     *)
(*    and suffixes are computed.                                           *)
(*                                                                         *)
(*  python_video_service.py : one request to POST /generate-video.         *)
(***************************************************************************)
EXTENDS Integers, Sequences, FiniteSets, TLC

VARIABLES
    \* ---- analyze_audio.py -------------------------------------------
    pc,             \* statement about to run, or "exited"
    argv,           \* sys.argv
    signal,         \* (y, sr) bound by librosa.load: <<>> unbound, <<"y">> bound
    tempo,          \* <<>> unbound, <<f>> with f the float beat_track returned
    bpm,            \* <<>> unbound, <<n>> bound
    chroma_profile, \* <<>> unbound, <<p>> with p the chroma.mean(axis=1) vector
    key_idx,        \* <<>> unbound, <<i>> bound
    is_minor,       \* <<>> unbound, <<b>> bound
    mode,           \* <<>> unbound, <<s>> bound (s a str)
    result,         \* <<>> unbound, <<dict>> bound
    exc,            \* <<>> or <<message>> of the exception being handled
    stdout,         \* records printed to stdout
    stderr,         \* records printed to stderr
    status,         \* <<>> while running, <<n>> exit status
    executed,       \* history: the statements run so far, in order
    reads,          \* history: every index used to subscript profile or keys
    runs,           \* history: number of process runs started so far
    fault,          \* history: TRUE once a step of this run failed for an outside reason
    ref,            \* history: <<>> or <<summary>> of one earlier finished run
    \* ---- python_video_service.py --------------------------------------
    vpc,            \* statement of generate_video_endpoint about to run
    files,          \* <<>> or <<f>>: audio_file, image_file as read from request.files
    temp_dir,       \* TRUE once tempfile.mkdtemp() created a directory
    saved,          \* uploads saved to disk so far
    generator,      \* TRUE once a VideoGenerator was constructed
    ffmpeg_calls,   \* subprocess.run invocations so far, in order
    success,        \* <<>> or <<b>>: first element of generate_video's return
    message,        \* <<>> or <<s>>: second element of generate_video's return
    vexc,           \* <<>> or <<message>> of the exception being handled
    response,       \* <<>> or <<[status, body]>> returned to the client
    uncaught,       \* TRUE if an exception left generate_video_endpoint
    requests        \* history: number of requests started so far

avars == <<pc, argv, signal, tempo, bpm, chroma_profile, key_idx, is_minor,
           mode, result, exc, stdout, stderr, status, executed, reads, runs,
           fault, ref>>
vvars == <<vpc, files, temp_dir, saved, generator, ffmpeg_calls, success,
           message, vexc, response, uncaught, requests>>
vars == <<avars, vvars>>

-----------------------------------------------------------------------------
(* Bounds of the model *)

MaxEnergy == 2      \* profile energies range over 0..MaxEnergy
MaxSupport == 2     \* at most this many pitch classes carry non-zero energy
MaxTempo2 == 3      \* tempo ranges over 0, 0.5, .., MaxTempo2/2 BPM
MaxRuns == 3        \* process runs in a sequence of invocations
MaxRequests == 3    \* requests served in sequence

-----------------------------------------------------------------------------
(* Python values *)

None == <<>>
Some(v) == <<v>>
Bound(x) == x # <<>>
Val(x) == x[1]

NumPitchClasses == 12

\* Python list subscript xs[i] for i >= 0 (lists here are 1-based sequences)
Subscript(xs, i) == xs[i + 1]
InRange(xs, i) == i >= 0 /\ i < Len(xs)

\* mutant of keys: 'Eb' mistyped as 'E'
keysTypo == << <<"C">>, <<"C","#">>, <<"D">>, <<"E">>, <<"E">>, <<"F">>,
               <<"F","#">>, <<"G">>, <<"A","b">>, <<"A">>, <<"B","b">>, <<"B">> >>

\* keys = ['C', 'C#', 'D', 'Eb', 'E', 'F', 'F#', 'G', 'Ab', 'A', 'Bb', 'B']
keys == << <<"C">>, <<"C","#">>, <<"D">>, <<"E","b">>, <<"E">>, <<"F">>,
           <<"F","#">>, <<"G">>, <<"A","b">>, <<"A">>, <<"B","b">>, <<"B">> >>


-----------------------------------------------------------------------------
(* Inputs *)

PitchClasses == 0 .. (NumPitchClasses - 1)

\* A profile with non-zero energy e[i] on the pitch classes of S, zero elsewhere
ProfileOf(S, e) == [i \in 1 .. NumPitchClasses |-> IF (i - 1) \in S THEN e[i - 1] ELSE 0]

\* chroma.mean(axis=1) vectors the feature source may deliver
ProfilesUpTo(k) ==
    UNION { { ProfileOf(S, e) : e \in [S -> 1 .. MaxEnergy] } :
            S \in { T \in SUBSET PitchClasses : Cardinality(T) <= k } }
Profiles == ProfilesUpTo(MaxSupport)
RunProfiles == { ProfileOf({i}, [j \in {i} |-> MaxEnergy]) : i \in PitchClasses }

\* a float: not-a-number, or a multiple of 0.5
Float(h) == [nan |-> FALSE, half |-> h]
NaN == [nan |-> TRUE, half |-> 0]
Tempos == { Float(h) : h \in 0 .. MaxTempo2 } \cup {NaN}
RunTempos == { Float(1), Float(MaxTempo2), NaN }

ArgvChoices == { <<"analyze_audio.py">>, <<"analyze_audio.py", "beat.mp3">> }

-----------------------------------------------------------------------------
(* Pure computations of analyze_audio.py *)

\* round(x) for a non-NaN float: nearest integer, halves to the even neighbour
Round(x) ==
    LET q == x.half \div 2
    IN  IF x.half % 2 = 0 THEN q
        ELSE IF q % 2 = 0 THEN q ELSE q + 1

\* numpy argmax over a non-empty vector: scan keeping the first maximum
RECURSIVE ArgmaxScan(_, _, _)
ArgmaxScan(p, i, best) ==
    IF i >= Len(p) THEN best
    ELSE ArgmaxScan(p, i + 1, IF Subscript(p, i) > Subscript(p, best) THEN i ELSE best)

\* mutant of Argmax: the scan keeps the last maximum (>= for >)
ArgmaxLast(p) ==
    CHOOSE i \in 0 .. (Len(p) - 1) :
        /\ \A j \in 0 .. (Len(p) - 1) : Subscript(p, j) <= Subscript(p, i)
        /\ \A j \in (i + 1) .. (Len(p) - 1) : Subscript(p, j) < Subscript(p, i)

Argmax(p) == ArgmaxScan(p, 1, 0)

\* mutant of MajorThirdIdx: the subscript is not reduced modulo 12
MajorThirdIdxNoWrap(k) == k + 4

\* the two subscripts of line 18
MinorThirdIdx(k) == (k + 3) % 12
MajorThirdIdx(k) == (k + 4) % 12

\* mutant of IsMinor: >= for >
IsMinorOrEqual(p, k) == Subscript(p, MinorThirdIdx(k)) >= Subscript(p, MajorThirdIdx(k))

\* chroma_profile[(key_idx + 3) % 12] > chroma_profile[(key_idx + 4) % 12]
IsMinor(p, k) == Subscript(p, MinorThirdIdx(k)) > Subscript(p, MajorThirdIdx(k))

\* 'm' if is_minor else ''
Mode(b) == IF b THEN <<"m">> ELSE <<>>

\* keys[key_idx] + mode
KeyLabel(k, m) == Subscript(keys, k) \o m

\* mutant of ResultDict: the success record carries an error field too
ResultDictWithError(b, k, m) ==
    [bpm |-> Some(b), key |-> Some(KeyLabel(k, m)), error |-> None]

\* {'bpm': bpm, 'key': keys[key_idx] + mode}
ResultDict(b, k, m) == [bpm |-> Some(b), key |-> Some(KeyLabel(k, m))]

\* mutant of FailureDict: the failure record reports the tempo already computed
FailureDictPartial(msg) == [bpm |-> bpm, key |-> None, error |-> Some(msg)]

\* {'bpm': None, 'key': None, 'error': str(e)}
FailureDict(msg) == [bpm |-> None, key |-> None, error |-> Some(msg)]

-----------------------------------------------------------------------------
(* analyze_audio.py, statement by statement *)

Stages == <<"argv", "load", "beat_track", "bpm", "chroma_cqt", "key_idx",
            "is_minor", "result", "print">>

InitA ==
    /\ pc = "idle"
    /\ argv = <<>>
    /\ signal = None /\ tempo = None /\ bpm = None /\ chroma_profile = None
    /\ key_idx = None /\ is_minor = None /\ mode = None /\ result = None
    /\ exc = None /\ stdout = <<>> /\ stderr = <<>> /\ status = None
    /\ executed = <<>> /\ reads = {} /\ runs = 0 /\ fault = FALSE /\ ref = None

\* an exception of class Exception raised by statement s: control goes to line 28
Raise(s, msg) ==
    /\ pc' = "except"
    /\ exc' = Some(msg)
    /\ executed' = Append(executed, s)

\* statement s ran to completion: control goes to statement n
Goto(s, n) ==
    /\ pc' = n
    /\ exc' = exc
    /\ executed' = Append(executed, s)

\* statement s fails for a reason outside its operands (MemoryError, OSError)
Fault(s) ==
    /\ Raise(s, <<"fault in", s>>)
    /\ fault' = TRUE

\* python analyze_audio.py [path]: the first process is started
Start ==
    /\ pc = "idle"
    /\ pc' = "argv"
    /\ argv' \in ArgvChoices
    /\ runs' = runs + 1
    /\ UNCHANGED <<signal, tempo, bpm, chroma_profile, key_idx, is_minor, mode, result,
                   exc, stdout, stderr, status, executed, reads, fault, ref>>

\* line 6: audio_path = sys.argv[1]
Argv ==
    /\ pc = "argv"
    /\ IF InRange(argv, 1)
         THEN Goto("argv", "load")
         ELSE Raise("argv", <<"list index out of range">>)
    /\ UNCHANGED <<argv, signal, tempo, bpm, chroma_profile, key_idx, is_minor, mode,
                   result, stdout, stderr, status, reads, runs, fault, ref>>

\* line 8: y, sr = librosa.load(audio_path)
Load ==
    /\ pc = "load"
    /\ \/ /\ Goto("load", "beat_track")
          /\ signal' = Some("y")
          /\ fault' = fault
       \/ /\ Fault("load")
          /\ signal' = signal
    /\ UNCHANGED <<argv, tempo, bpm, chroma_profile, key_idx, is_minor, mode,
                   result, stdout, stderr, status, reads, runs, ref>>

\* line 10: tempo, _ = librosa.beat.beat_track(y=y, sr=sr)
BeatTrack(T) ==
    /\ pc = "beat_track"
    /\ \/ /\ \E t \in T : tempo' = Some(t)
          /\ Goto("beat_track", "bpm")
          /\ fault' = fault
       \/ /\ Fault("beat_track")
          /\ tempo' = tempo
    /\ UNCHANGED <<argv, signal, bpm, chroma_profile, key_idx, is_minor, mode,
                   result, stdout, stderr, status, reads, runs, ref>>

\* mutant of BpmValue: state kept across invocations leaks into the result
BpmValueStateful(t) == Round(t) + (runs - 1)

\* line 11: bpm = int(round(tempo))
BpmValue(t) == Round(t)

Bpm ==
    /\ pc = "bpm"
    /\ \/ /\ IF Val(tempo).nan
               THEN Raise("bpm", <<"cannot convert float NaN to integer">>) /\ bpm' = bpm
               ELSE Goto("bpm", "chroma_cqt") /\ bpm' = Some(BpmValue(Val(tempo)))
          /\ fault' = fault
       \/ /\ Fault("bpm")
          /\ bpm' = bpm
    /\ UNCHANGED <<argv, signal, tempo, chroma_profile, key_idx, is_minor, mode,
                   result, stdout, stderr, status, reads, runs, ref>>

\* line 13: chroma = librosa.feature.chroma_cqt(y=y, sr=sr); the model keeps
\* chroma.mean(axis=1), the only thing lines 14 and 17 read of it
ChromaCqt(P) ==
    /\ pc = "chroma_cqt"
    /\ \/ /\ \E p \in P : chroma_profile' = Some(p)
          /\ Goto("chroma_cqt", "key_idx")
          /\ fault' = fault
       \/ /\ Fault("chroma_cqt")
          /\ chroma_profile' = chroma_profile
    /\ UNCHANGED <<argv, signal, tempo, bpm, key_idx, is_minor, mode,
                   result, stdout, stderr, status, reads, runs, ref>>

\* line 14: key_idx = chroma.mean(axis=1).argmax()
KeyIdx ==
    /\ pc = "key_idx"
    /\ \/ /\ key_idx' = Some(Argmax(Val(chroma_profile)))
          /\ Goto("key_idx", "is_minor")
          /\ fault' = fault
       \/ /\ Fault("key_idx")
          /\ key_idx' = key_idx
    /\ UNCHANGED <<argv, signal, tempo, bpm, chroma_profile, is_minor, mode,
                   result, stdout, stderr, status, reads, runs, ref>>

\* lines 17-19: chroma_profile = ...; is_minor = ... > ...; mode = 'm' if is_minor else ''
IsMinorMode ==
    /\ pc = "is_minor"
    /\ LET p == Val(chroma_profile)
           a == MinorThirdIdx(Val(key_idx))
           b == MajorThirdIdx(Val(key_idx))
       IN  \/ /\ reads' = reads \cup {a, b}
              /\ IF InRange(p, a) /\ InRange(p, b)
                   THEN /\ is_minor' = Some(IsMinor(p, Val(key_idx)))
                        /\ mode' = Some(Mode(IsMinor(p, Val(key_idx))))
                        /\ Goto("is_minor", "result")
                   ELSE /\ Raise("is_minor", <<"index out of bounds">>)
                        /\ UNCHANGED <<is_minor, mode>>
              /\ fault' = fault
           \/ /\ Fault("is_minor")
              /\ UNCHANGED <<is_minor, mode, reads>>
    /\ UNCHANGED <<argv, signal, tempo, bpm, chroma_profile, key_idx,
                   result, stdout, stderr, status, runs, ref>>

\* lines 21-24: result = {'bpm': bpm, 'key': keys[key_idx] + mode}
Result ==
    /\ pc = "result"
    /\ \/ /\ reads' = reads \cup {Val(key_idx)}
          /\ IF InRange(keys, Val(key_idx))
               THEN /\ result' = Some(ResultDict(Val(bpm), Val(key_idx), Val(mode)))
                    /\ Goto("result", "print")
               ELSE /\ Raise("result", <<"list index out of range">>)
                    /\ result' = result
          /\ fault' = fault
       \/ /\ Fault("result")
          /\ UNCHANGED <<result, reads>>
    /\ UNCHANGED <<argv, signal, tempo, bpm, chroma_profile, key_idx, is_minor, mode,
                   stdout, stderr, status, runs, ref>>

\* line 26: print(json.dumps(result)); falling off the end of the module exits 0
PrintResult ==
    /\ pc = "print"
    /\ \/ /\ stdout' = Append(stdout, Val(result))
          /\ Goto("print", "exited")
          /\ status' = Some(0)
          /\ fault' = fault
       \/ /\ Fault("print")
          /\ UNCHANGED <<stdout, status>>
    /\ UNCHANGED <<argv, signal, tempo, bpm, chroma_profile, key_idx, is_minor, mode,
                   result, stderr, reads, runs, ref>>

\* mutant of Except: sys.exit(1) is missing, the script falls off its end
ExceptNoExit ==
    /\ pc = "except"
    /\ stderr' = Append(stderr, FailureDict(Val(exc)))
    /\ status' = Some(0)
    /\ pc' = "exited"
    /\ UNCHANGED <<argv, signal, tempo, bpm, chroma_profile, key_idx, is_minor, mode,
                   result, exc, stdout, executed, reads, runs, fault, ref>>

\* lines 28-30: except Exception as e: print(json.dumps({...}), file=sys.stderr); sys.exit(1)
Except ==
    /\ pc = "except"
    /\ stderr' = Append(stderr, FailureDict(Val(exc)))
    /\ status' = Some(1)
    /\ pc' = "exited"
    /\ UNCHANGED <<argv, signal, tempo, bpm, chroma_profile, key_idx, is_minor, mode,
                   result, exc, stdout, executed, reads, runs, fault, ref>>

\* what one finished run took from the feature source and what it produced
Summary == [tempo |-> tempo, profile |-> chroma_profile, fault |-> fault,
            stdout |-> stdout, stderr |-> stderr, status |-> status]

\* the script is started again: a new process, with an empty module namespace
Invoke ==
    /\ pc = "exited"
    /\ runs < MaxRuns
    /\ runs' = runs + 1
    /\ \/ ref' = Some(Summary)
       \/ ref' = ref
    /\ pc' = "argv"
    /\ argv' \in ArgvChoices
    /\ signal' = None /\ tempo' = None /\ bpm' = None /\ chroma_profile' = None
    /\ key_idx' = None /\ is_minor' = None /\ mode' = None /\ result' = None
    /\ exc' = None /\ stdout' = <<>> /\ stderr' = <<>> /\ status' = None
    /\ executed' = <<>> /\ reads' = {} /\ fault' = FALSE


-----------------------------------------------------------------------------
(* python_video_service.py: POST /generate-video *)

\* an uploaded part: absent from the form, present without a filename, or named
UploadKinds == {"absent", "unnamed", "named"}

\* bool(FileStorage) is bool(filename); request.files.get gives None when absent
Truthy(upload) == upload = "named"

\* exception classes the handler can meet; all derive from Exception
ExceptionClasses == {"HTTPException", "OSError", "RuntimeError"}

\* mutant of Catches: except RuntimeError
CatchesRuntimeOnly(cls) == cls = "RuntimeError"

\* line 96: except Exception as e
Catches(cls) == cls \in ExceptionClasses

Json(code, body) == Some([status |-> code, body |-> body])

InitV ==
    /\ vpc = "idle"
    /\ files = None
    /\ temp_dir = FALSE /\ saved = {} /\ generator = FALSE /\ ffmpeg_calls = <<>>
    /\ success = None /\ message = None /\ vexc = None /\ response = None
    /\ uncaught = FALSE /\ requests = 0

\* an exception raised inside the try block of generate_video_endpoint
VRaise(cls, msg) ==
    /\ vexc' = Some([cls |-> cls, msg |-> msg])
    /\ vpc' = "except"

\* lines 57-58: request.files.get(...); parsing the form may raise
GetFiles ==
    /\ vpc = "files"
    /\ \/ /\ \E f \in [{"audio", "image"} -> UploadKinds] : files' = Some(f)
          /\ vpc' = "validate" /\ vexc' = vexc
       \/ /\ files' = files
          /\ VRaise("HTTPException", "400 Bad Request")
    /\ UNCHANGED <<temp_dir, saved, generator, ffmpeg_calls, success, message,
                   response, uncaught, requests>>

\* mutant of Validate: "and" for "or"
ValidateBothMissing ==
    /\ vpc = "validate"
    /\ IF ~Truthy(Val(files)["audio"]) /\ ~Truthy(Val(files)["image"])
         THEN /\ response' = Json(400, [success |-> FALSE,
                                        error |-> "Both audio and image files required"])
              /\ vpc' = "done"
         ELSE /\ response' = response
              /\ vpc' = "mkdtemp"
    /\ UNCHANGED <<files, temp_dir, saved, generator, ffmpeg_calls, success, message,
                   vexc, uncaught, requests>>

\* lines 60-64: if not audio_file or not image_file: return ..., 400
Validate ==
    /\ vpc = "validate"
    /\ IF ~Truthy(Val(files)["audio"]) \/ ~Truthy(Val(files)["image"])
         THEN /\ response' = Json(400, [success |-> FALSE,
                                        error |-> "Both audio and image files required"])
              /\ vpc' = "done"
         ELSE /\ response' = response
              /\ vpc' = "mkdtemp"
    /\ UNCHANGED <<files, temp_dir, saved, generator, ffmpeg_calls, success, message,
                   vexc, uncaught, requests>>

\* lines 67-72: session_id = str(uuid.uuid4()); temp_dir = tempfile.mkdtemp(); paths
Mkdtemp ==
    /\ vpc = "mkdtemp"
    /\ \/ temp_dir' = TRUE /\ vpc' = "save_audio" /\ vexc' = vexc
       \/ temp_dir' = temp_dir /\ VRaise("OSError", "mkdtemp failed")
    /\ UNCHANGED <<files, saved, generator, ffmpeg_calls, success, message,
                   response, uncaught, requests>>

\* line 75: audio_file.save(audio_path)
SaveAudio ==
    /\ vpc = "save_audio"
    /\ \/ saved' = saved \cup {"audio"} /\ vpc' = "save_image" /\ vexc' = vexc
       \/ saved' = saved /\ VRaise("OSError", "save failed")
    /\ UNCHANGED <<files, temp_dir, generator, ffmpeg_calls, success, message,
                   response, uncaught, requests>>

\* line 76: image_file.save(image_path)
SaveImage ==
    /\ vpc = "save_image"
    /\ \/ saved' = saved \cup {"image"} /\ vpc' = "construct" /\ vexc' = vexc
       \/ saved' = saved /\ VRaise("OSError", "save failed")
    /\ UNCHANGED <<files, temp_dir, generator, ffmpeg_calls, success, message,
                   response, uncaught, requests>>

\* what subprocess.run(..., check=True) can do
VersionOutcomes == {"ok", "CalledProcessError", "FileNotFoundError", "OSError"}
EncodeOutcomes == {"ok", "CalledProcessError", "OSError"}

\* lines 19-25: VideoGenerator.__init__, called at line 79
Construct ==
    /\ vpc = "construct"
    /\ \E o \in VersionOutcomes :
         /\ ffmpeg_calls' = Append(ffmpeg_calls, [cmd |-> "-version", outcome |-> o])
         /\ IF o = "ok"
              THEN generator' = TRUE /\ vpc' = "generate" /\ vexc' = vexc
              ELSE IF o \in {"CalledProcessError", "FileNotFoundError"}
                     THEN /\ generator' = generator
                          /\ VRaise("RuntimeError", "FFmpeg not found. Please install FFmpeg.")
                     ELSE generator' = generator /\ VRaise("OSError", "ffmpeg could not be run")
    /\ UNCHANGED <<files, temp_dir, saved, success, message, response, uncaught, requests>>

\* lines 27-51: VideoGenerator.generate_video, called at line 80
GenerateVideo ==
    /\ vpc = "generate"
    /\ \E o \in EncodeOutcomes :
         /\ ffmpeg_calls' = Append(ffmpeg_calls, [cmd |-> "encode", outcome |-> o])
         /\ IF o = "ok"
              THEN /\ success' = Some(TRUE)
                   /\ message' = Some("Video generated successfully")
                   /\ vpc' = "respond" /\ vexc' = vexc
              ELSE IF o = "CalledProcessError"
                     THEN /\ success' = Some(FALSE)
                          /\ message' = Some("FFmpeg error: stderr")
                          /\ vpc' = "respond" /\ vexc' = vexc
                     ELSE /\ UNCHANGED <<success, message>>
                          /\ VRaise("OSError", "ffmpeg could not be run")
    /\ UNCHANGED <<files, temp_dir, saved, generator, response, uncaught, requests>>

\* lines 82-94: if success: return jsonify({...}) else: return jsonify({...}), 500
Respond ==
    /\ vpc = "respond"
    /\ response' = IF Val(success)
                     THEN Json(200, [success |-> TRUE, video_path |-> "output_path",
                                     session_id |-> "session_id", message |-> Val(message)])
                     ELSE Json(500, [success |-> FALSE, error |-> Val(message)])
    /\ vpc' = "done"
    /\ UNCHANGED <<files, temp_dir, saved, generator, ffmpeg_calls, success, message,
                   vexc, uncaught, requests>>

\* lines 96-100: except Exception as e: return jsonify({...}), 500
VExcept ==
    /\ vpc = "except"
    /\ IF Catches(Val(vexc).cls)
         THEN /\ response' = Json(500, [success |-> FALSE, error |-> Val(vexc).msg])
              /\ uncaught' = uncaught
         ELSE /\ response' = response
              /\ uncaught' = TRUE
    /\ vpc' = "done"
    /\ UNCHANGED <<files, temp_dir, saved, generator, ffmpeg_calls, success, message,
                   vexc, requests>>

\* the next request arrives: the view function runs again with fresh locals
NextRequest ==
    /\ vpc \in {"idle", "done"}
    /\ requests < MaxRequests
    /\ requests' = requests + 1
    /\ vpc' = "files"
    /\ files' = None
    /\ temp_dir' = FALSE /\ saved' = {} /\ generator' = FALSE /\ ffmpeg_calls' = <<>>
    /\ success' = None /\ message' = None /\ vexc' = None /\ response' = None
    /\ uncaught' = FALSE

-----------------------------------------------------------------------------
(* Specifications *)

Init == InitA /\ InitV

\* one run of analyze_audio.py
Next ==
    /\ \/ Start \/ Argv \/ Load \/ BeatTrack(Tempos) \/ Bpm \/ ChromaCqt(Profiles)
       \/ KeyIdx \/ IsMinorMode \/ Result \/ PrintResult \/ Except
    /\ UNCHANGED vvars

Spec == Init /\ [][Next]_vars

\* analyze_audio.py started again and again
NextRuns ==
    /\ \/ Start \/ Argv \/ Load \/ BeatTrack(RunTempos) \/ Bpm \/ ChromaCqt(RunProfiles)
       \/ KeyIdx \/ IsMinorMode \/ Result \/ PrintResult \/ Except \/ Invoke
    /\ UNCHANGED vvars

SpecRuns == Init /\ [][NextRuns]_vars

\* requests to /generate-video, one after the other
NextVideo ==
    /\ \/ GetFiles \/ Validate \/ Mkdtemp \/ SaveAudio \/ SaveImage \/ Construct
       \/ GenerateVideo \/ Respond \/ VExcept \/ NextRequest
    /\ UNCHANGED avars

SpecVideo == Init /\ [][NextVideo]_vars

-----------------------------------------------------------------------------
(* Claims about analyze_audio.py *)

Failed == Bound(exc)
FailedStage == executed[Len(executed)]
IsPrefix(xs, ys) == Len(xs) <= Len(ys) /\ xs = SubSeq(ys, 1, Len(xs))

Chars == {"A", "B", "C", "D", "E", "F", "G", "#", "b", "m"}
IsStr(x) == x \in Seq(Chars)

SuccessShape(r) ==
    /\ DOMAIN r = {"bpm", "key"}
    /\ Bound(r.bpm) /\ Val(r.bpm) \in Int
    /\ Bound(r.key) /\ IsStr(Val(r.key))

FailureShape(r) ==
    /\ DOMAIN r = {"bpm", "key", "error"}
    /\ r.bpm = None /\ r.key = None
    /\ Bound(r.error)

\* C1: once a statement of the pipeline has raised, whichever it is, no later
\* statement runs (the statements run are a prefix of the pipeline ending at
\* the one that raised, and nothing is written to stdout), and the run ends
\* with the failure record {bpm: null, key: null, error: <string>} on stderr.
C1_FailureShortCircuits ==
    Failed =>
        /\ pc \in {"except", "exited"}
        /\ IsPrefix(executed, Stages)
        /\ stdout = <<>>
        /\ pc = "exited" =>
             /\ Len(stderr) = 1
             /\ FailureShape(stderr[1])
             /\ stderr[1].bpm = None /\ stderr[1].key = None
             /\ stderr[1].error = exc

\* the last statement, print, raised after tempo and key were both computed
C1_Witness ==
    /\ pc = "exited" /\ Failed /\ FailedStage = "print"
    /\ Bound(bpm) /\ Bound(result) /\ Len(stderr) = 1

\* the path argument is missing
C1_WitnessNoArg ==
    /\ pc = "exited" /\ Failed /\ FailedStage = "argv" /\ Len(argv) = 1

\* C2: a run emits at most one record while it runs and exactly one by the time
\* it has exited; every record emitted is either the success shape (bpm an
\* integer, key a string, no error field) or the failure shape (bpm null, key
\* null, error string), never a partly populated one.
C2_ExactlyOneShapedRecord ==
    LET emitted == stdout \o stderr
    IN  /\ Len(emitted) <= 1
        /\ pc = "exited" => Len(emitted) = 1
        /\ \A i \in 1 .. Len(emitted) :
             /\ SuccessShape(emitted[i]) \/ FailureShape(emitted[i])
             /\ ~(SuccessShape(emitted[i]) /\ FailureShape(emitted[i]))
             /\ Bound(emitted[i].bpm) <=> Bound(emitted[i].key)

C2_Witness ==
    /\ pc = "exited" /\ ~Failed
    /\ Len(stdout) = 1 /\ SuccessShape(stdout[1]) /\ stderr = <<>>

\* C3: a failure record goes to stderr only and the process then exits with a
\* non-zero status; a success record goes to stdout only and the process exits
\* with status 0; no run writes to both channels.
C3_ChannelAndStatus ==
    /\ stdout = <<>> \/ stderr = <<>>
    /\ \A i \in 1 .. Len(stdout) : SuccessShape(stdout[i])
    /\ \A i \in 1 .. Len(stderr) : FailureShape(stderr[i])
    /\ pc = "exited" =>
         /\ Bound(status)
         /\ stderr # <<>> <=> Val(status) # 0
         /\ stdout # <<>> <=> Val(status) = 0
    /\ stderr # <<>> => pc = "exited"
    /\ stdout # <<>> => pc = "exited"

C3_Witness ==
    /\ pc = "exited" /\ status = Some(1)
    /\ stdout = <<>> /\ Len(stderr) = 1 /\ FailedStage = "chroma_cqt"

\* energy of pitch class i (0-based) in profile p
Energy(p, i) == p[i + 1]
IsMaximum(p, i) == \A j \in PitchClasses : Energy(p, j) <= Energy(p, i)
\* i + n on the 12-class cycle, for 0 <= i <= 11 and 0 <= n <= 12
Cycle(i, n) == IF i + n >= 12 THEN i + n - 12 ELSE i + n
EstimationRan(s) == \E n \in 1 .. Len(executed) : executed[n] = s /\ (n < Len(executed) \/ ~Failed)

\* C4: the dominant pitch class is the lowest index holding the maximum of the
\* profile: with a unique maximum it is that index, with several tied maxima
\* (the flat profile included) it is the lowest of them.
C4_ArgmaxLowestIndex ==
    EstimationRan("key_idx") =>
        /\ Bound(key_idx)
        /\ LET p == Val(chroma_profile)
               d == Val(key_idx)
           IN  /\ d \in PitchClasses
               /\ IsMaximum(p, d)
               /\ \A j \in PitchClasses : j < d => Energy(p, j) < Energy(p, d)
               /\ \A i \in PitchClasses :
                    (\A j \in PitchClasses \ {i} : Energy(p, j) < Energy(p, i)) => d = i

\* two pitch classes tie for a non-zero maximum, neither of them index 0
C4_Witness ==
    /\ Bound(key_idx) /\ Val(key_idx) > 0
    /\ LET p == Val(chroma_profile)
       IN  /\ Cardinality({ i \in PitchClasses : IsMaximum(p, i) }) = 2
           /\ Energy(p, Val(key_idx)) > 0

\* C5: with dominant index d the key is minor exactly when the energy three
\* semitones above d strictly exceeds the energy four semitones above d, both
\* taken around the 12-class cycle; on a tie or a larger major third it is major.
C5_ModeHeuristic ==
    EstimationRan("is_minor") =>
        /\ Bound(is_minor) /\ Bound(mode)
        /\ LET p == Val(chroma_profile)
               d == Val(key_idx)
               minor == Energy(p, Cycle(d, 3)) > Energy(p, Cycle(d, 4))
           IN  /\ Val(is_minor) <=> minor
               /\ Val(mode) = <<"m">> <=> minor
               /\ Val(mode) = <<>> <=> ~minor

\* a minor key whose minor third lies past the end of the cycle
C5_Witness ==
    /\ Bound(is_minor) /\ Val(is_minor) /\ Val(key_idx) >= 9
    /\ Val(mode) = <<"m">>

\* the 12 canonical names, written out
CanonicalNames == { <<"C">>, <<"C","#">>, <<"D">>, <<"E","b">>, <<"E">>, <<"F">>,
                    <<"F","#">>, <<"G">>, <<"A","b">>, <<"A">>, <<"B","b">>, <<"B">> }
CanonicalLabels == CanonicalNames \cup { n \o <<"m">> : n \in CanonicalNames }

\* C6: for every profile the pitch-class index is in 0..11, the mode is major
\* or minor, every subscript used on the profile or the name table is in
\* 0..11 (so no subscript raises), and the key printed is a canonical name,
\* optionally followed by "m".
C6_RangeAndLabels ==
    /\ Bound(key_idx) => Val(key_idx) \in PitchClasses
    /\ Bound(mode) => Val(mode) \in {<<>>, <<"m">>}
    /\ reads \subseteq PitchClasses
    /\ EstimationRan("key_idx") /\ ~fault /\ Failed => FailedStage \notin {"is_minor", "result"}
    /\ EstimationRan("result") => Bound(result) /\ reads = {Val(key_idx), Cycle(Val(key_idx), 3), Cycle(Val(key_idx), 4)}
    /\ Bound(result) => Val(Val(result).key) \in CanonicalLabels
    /\ \A i \in 1 .. Len(stdout) : Val(stdout[i].key) \in CanonicalLabels

\* the flat, silent profile is analysed and printed
C6_Witness ==
    /\ pc = "exited" /\ Len(stdout) = 1
    /\ \A i \in PitchClasses : Energy(Val(chroma_profile), i) = 0
    /\ reads = {0, 3, 4}

\* the label read back: trailing "m" means minor, the rest is looked up in keys
LabelMinor(l) == Len(l) > 0 /\ l[Len(l)] = "m"
LabelName(l) == IF LabelMinor(l) THEN SubSeq(l, 1, Len(l) - 1) ELSE l
LabelIndices(l) == { i \in PitchClasses : keys[i + 1] = LabelName(l) }

\* C7: (index, mode) to label is one-to-one onto 24 strings; the index is
\* recovered from the label through the name table in the order C=0 .. B=11,
\* a minor label ends in "m" and a major label does not.
C7_LabelBijection ==
    /\ \A i \in PitchClasses : Subscript(keys, i) \in CanonicalNames
                               /\ LabelIndices(Subscript(keys, i)) = {i}
    /\ Cardinality({ KeyLabel(i, Mode(b)) : i \in PitchClasses, b \in BOOLEAN }) = 24
    /\ Bound(result) =>
         LET l == Val(Val(result).key)
         IN  /\ LabelIndices(l) = {Val(key_idx)}
             /\ LabelMinor(l) <=> Val(is_minor)

\* "Am", read back as index 9, minor
C7_Witness ==
    /\ pc = "exited" /\ Len(stdout) = 1
    /\ Val(stdout[1].key) = <<"A", "m">> /\ Val(key_idx) = 9 /\ Val(is_minor)

-----------------------------------------------------------------------------
(* Claims about python_video_service.py *)

EncoderSucceeded ==
    \E n \in 1 .. Len(ffmpeg_calls) : ffmpeg_calls[n] = [cmd |-> "encode", outcome |-> "ok"]

\* C9: no exception leaves the view function; a finished request has a
\* response, which is success = true, status 200 with a video_path exactly
\* when the encoder run completed successfully, and otherwise success = false
\* with an error message and a status other than 200.
C9_AlwaysAResponse ==
    /\ ~uncaught
    /\ vpc = "done" =>
         /\ Bound(response)
         /\ LET r == Val(response)
            IN  IF EncoderSucceeded
                  THEN /\ r.status = 200 /\ r.body.success
                       /\ "video_path" \in DOMAIN r.body
                       /\ "error" \notin DOMAIN r.body
                  ELSE /\ r.status # 200 /\ ~r.body.success
                       /\ "error" \in DOMAIN r.body
                       /\ "video_path" \notin DOMAIN r.body
    /\ Bound(response) => vpc = "done"

\* ffmpeg -version could not be run for a reason other than a missing binary
C9_Witness ==
    /\ vpc = "done" /\ Bound(vexc) /\ Val(vexc).cls = "OSError"
    /\ Len(ffmpeg_calls) = 1 /\ Val(response).status = 500

\* C10: while an upload is missing from the request no temporary directory
\* exists, nothing is saved, no VideoGenerator is constructed and ffmpeg is
\* not run, and the request ends with status 400 and success = false; ffmpeg
\* is run only once both uploads are saved.
C10_ValidationFirst ==
    /\ (Bound(files) /\ \E part \in {"audio", "image"} : Val(files)[part] = "absent") =>
         /\ ~temp_dir /\ saved = {} /\ ~generator /\ ffmpeg_calls = <<>>
         /\ vpc \in {"validate", "done"}
         /\ vpc = "done" => /\ Bound(response)
                            /\ Val(response).status = 400
                            /\ ~Val(response).body.success
    /\ ~Bound(files) => ~temp_dir /\ saved = {} /\ ~generator /\ ffmpeg_calls = <<>>
    /\ saved # {} => temp_dir
    /\ generator => ffmpeg_calls # <<>>
    /\ ffmpeg_calls # <<>> => temp_dir /\ saved = {"audio", "image"}

\* the image is missing, the audio is there: answered 400
C10_Witness ==
    /\ vpc = "done" /\ Bound(files)
    /\ Val(files)["audio"] = "named" /\ Val(files)["image"] = "absent"
    /\ Val(response).status = 400

====
